---- MODULE Spec2Model ----
(***************************************************************************)
(* A model of src/UUID.ts: the RFC 4122 identifier (the six fields and    *)
(* their hexadecimal string), the version-1 generator with its            *)
(* process-wide state {timestamp, sequence, tick, node}, the parser and   *)
(* the time converter.                                                     *)
(*                                                                         *)
(* Numbers.  A JavaScript number holding a non-negative integer below     *)
(* 2^53 is modelled exactly, as the sequence of its base-2^16 digits,     *)
(* least significant first and without leading zero digits (0 is << >>).  *)
(* Such a sequence is called a Big below.  The one floating-point         *)
(* operation of the source that is not exact on integers, the product in  *)
(* _getTimeFieldValues, is modelled with its IEEE 754 rounding.           *)
(*                                                                         *)
(* Strings.  A string is modelled as the sequence of its characters; a     *)
(* character that cannot be written here is named by its code point, as   *)
(* in "U+00A0".                                                            *)
(***************************************************************************)
EXTENDS Integers, Sequences, FiniteSets, TLC

VARIABLES
  st,        \* UUID._state: [timestamp, sequence, node, tick]
  ret,       \* what the last operation returned (Null for null and for nothing)
  op,        \* the last operation
  branch,    \* the branch the last genV1 call took
  now,       \* the clock value the last genV1 call read
  arg,       \* the argument of the last stateless operation
  calls,     \* operations performed so far (counted under Spec)
  bumps,     \* sequence increments so far (counted under SpecTick)
  advances,  \* tick advances so far (counted under SpecWrap)
  snap,      \* the first identifier of the run (kept under SpecWrap)
  since      \* genV1 calls since snap was returned (counted under SpecWrap)

vars == <<st, ret, op, branch, now, arg, calls, bumps, advances, snap, since>>

Null == [null |-> TRUE]

----------------------------------------------------------------------------
(* Exact integer arithmetic on Bigs *)

Limb == 2^16

RECURSIVE Norm(_)
Norm(s) ==
  IF s = <<>> THEN <<>>
  ELSE IF s[Len(s)] = 0 THEN Norm(SubSeq(s, 1, Len(s) - 1))
  ELSE s

LimbAt(a, i) == IF i >= 1 /\ i <= Len(a) THEN a[i] ELSE 0

RECURSIVE ToBig(_)
ToBig(n) == IF n = 0 THEN <<>> ELSE <<n % Limb>> \o ToBig(n \div Limb)

RECURSIVE BigToInt(_)
BigToInt(a) == IF a = <<>> THEN 0 ELSE a[1] + Limb * BigToInt(Tail(a))

RECURSIVE AddFrom(_, _, _, _)
AddFrom(a, b, i, c) ==
  IF i > Len(a) /\ i > Len(b)
  THEN IF c = 0 THEN <<>> ELSE <<c>>
  ELSE LET s == LimbAt(a, i) + LimbAt(b, i) + c
       IN  <<s % Limb>> \o AddFrom(a, b, i + 1, s \div Limb)

BigAdd(a, b) == Norm(AddFrom(a, b, 1, 0))

RECURSIVE MulFrom(_, _, _, _)
MulFrom(a, k, i, c) ==
  IF i > Len(a)
  THEN IF c = 0 THEN <<>> ELSE <<c>>
  ELSE LET p == a[i] * k + c
       IN  <<p % Limb>> \o MulFrom(a, k, i + 1, p \div Limb)

\* a * k for a small factor k (k <= 2^14)
BigMulSmall(a, k) == Norm(MulFrom(a, k, 1, 0))

\* floor(a / 2^n)
BigShr(a, n) ==
  LET d == n \div 16
      r == n % 16
  IN  IF Len(a) <= d THEN <<>>
      ELSE Norm([i \in 1..(Len(a) - d) |->
                   (a[i + d] \div 2^r) + (LimbAt(a, i + d + 1) % 2^r) * 2^(16 - r)])

\* a * 2^n
BigShl(a, n) ==
  LET d == n \div 16
      r == n % 16
      m == BigMulSmall(a, 2^r)
  IN  IF m = <<>> THEN <<>> ELSE [i \in 1..d |-> 0] \o m

\* a mod 2^n
BigModPow2(a, n) ==
  LET d == n \div 16
      r == n % 16
  IN  IF Len(a) <= d THEN a
      ELSE Norm(SubSeq(a, 1, d) \o <<a[d + 1] % 2^r>>)

RECURSIVE BitLen(_)
BitLen(n) == IF n = 0 THEN 0 ELSE 1 + BitLen(n \div 2)

BigBitLen(a) == IF a = <<>> THEN 0 ELSE 16 * (Len(a) - 1) + BitLen(a[Len(a)])

RECURSIVE LtFrom(_, _, _)
LtFrom(a, b, i) ==
  IF i = 0 THEN FALSE
  ELSE IF a[i] # b[i] THEN a[i] < b[i]
  ELSE LtFrom(a, b, i - 1)

BigLt(a, b) ==
  IF Len(a) # Len(b) THEN Len(a) < Len(b) ELSE LtFrom(a, b, Len(a))

\* the bitwise operators of the source on non-negative 31-bit integers
RECURSIVE BitAnd(_, _)
BitAnd(a, b) ==
  IF a = 0 \/ b = 0 THEN 0
  ELSE (a % 2) * (b % 2) + 2 * BitAnd(a \div 2, b \div 2)

RECURSIVE BitOr(_, _)
BitOr(a, b) ==
  IF a = 0 THEN b
  ELSE IF b = 0 THEN a
  ELSE (IF a % 2 = 1 \/ b % 2 = 1 THEN 1 ELSE 0) + 2 * BitOr(a \div 2, b \div 2)

----------------------------------------------------------------------------
(* TimeConverter: UUID._getTimeFieldValues *)

\* -Date.UTC(1582, 9, 15) = 12219292800000 ms
GregorianOffset == <<21504, 1691, 2845>>

\* The double nearest to the integer p (round to nearest, ties to even on the
\* 53-bit significand), as an integer.  p is below 2^67, so at most 14 bits go.
RoundToDouble(p) ==
  LET e == BigBitLen(p) - 53
  IN  IF e <= 0 THEN p
      ELSE LET q    == BigShr(p, e)
               r    == BigToInt(BigModPow2(p, e))
               half == 2^(e - 1)
               up   == r > half \/ (r = half /\ LimbAt(q, 1) % 2 = 1)
           IN  BigShl(IF up THEN BigAdd(q, <<1>>) ELSE q, e)

\* (ts / 0x100000000) * 10000: the quotient is exact (a power of two), the
\* product is rounded to a double; the result is returned scaled by 2^32.
ScaledHighProduct(ts) == RoundToDouble(BigMulSmall(ts, 10000))

\* ((ts / 0x100000000) * 10000) & 0xFFFFFFF: ToInt32 truncates, & keeps 28 bits
HighMasked(ts) == BigToInt(BigModPow2(BigShr(ScaledHighProduct(ts), 32), 28))

\* ((ts & 0xFFFFFFF) * 10000) % 0x100000000, exact in doubles (below 2^42)
LowField(ts) == BigModPow2(BigMulSmall(BigModPow2(ts, 28), 10000), 32)

getTimeFieldValues(time) ==
  LET ts == BigAdd(time, GregorianOffset)
      hm == HighMasked(ts)
  IN  [low |-> LowField(ts), mid |-> BitAnd(hm, 65535), hi |-> hm \div 2^16,
       timestamp |-> ts]

----------------------------------------------------------------------------
(* FieldCodec: UUID._getIntAligner, and the Identifier built by UUID._init *)

FIELD_SIZES == <<32, 16, 16, 8, 8, 48>>

HexDigits == <<"0", "1", "2", "3", "4", "5", "6", "7",
               "8", "9", "a", "b", "c", "d", "e", "f">>

\* the four hexadecimal digits of one base-2^16 digit, most significant first
LimbHex(x) ==
  <<HexDigits[(x \div 4096) + 1], HexDigits[((x \div 256) % 16) + 1],
    HexDigits[((x \div 16) % 16) + 1], HexDigits[(x % 16) + 1]>>

RECURSIVE StripZeros(_)
StripZeros(s) ==
  IF Len(s) > 1 /\ s[1] = "0" THEN StripZeros(Tail(s)) ELSE s

RECURSIVE AllLimbHex(_)
AllLimbHex(a) == IF a = <<>> THEN <<>> ELSE AllLimbHex(Tail(a)) \o LimbHex(a[1])

\* num.toString(16): lowercase digits, no leading zeros, "0" for zero
ToString16(num) == IF num = <<>> THEN <<"0">> ELSE StripZeros(AllLimbHex(num))

\* the padding loop: for (; i > 0; i >>>= 1, z += z) if (i & 1) str = z + str
RECURSIVE PadLoop(_, _, _)
PadLoop(str, i, z) ==
  IF i <= 0 THEN str
  ELSE PadLoop(IF i % 2 = 1 THEN z \o str ELSE str, i \div 2, z \o z)

\* hexAligner without the padding loop
hexAlignerNoPad(num, length) == ToString16(num)

hexAligner(num, length) ==
  LET str == ToString16(num) IN PadLoop(str, length - Len(str), <<"0">>)

\* (this.intFields[2] >> 12) & 0xF: >> works on the low 32 bits
Version(intFields) == (LimbAt(intFields[3], 1) \div 4096) % 16

\* UUID._init.  The arguments are integers, on which parseInt(x || 0) is the
\* identity.  Of the derived members the model keeps version and hexString.
UUIDInit(fields) ==
  LET hexFields == [i \in 1..6 |-> hexAligner(fields[i], FIELD_SIZES[i] \div 4)]
  IN  [intFields |-> fields,
       version   |-> Version(fields),
       hexString |-> hexFields[1] \o <<"-">> \o hexFields[2] \o <<"-">>
                     \o hexFields[3] \o <<"-">> \o hexFields[4] \o hexFields[5]
                     \o <<"-">> \o hexFields[6]]

\* UUID.equals: the six integer fields are compared with !==
Equals(a, b) ==
  /\ b # Null
  /\ \A i \in 1..6 : a.intFields[i] = b.intFields[i]

----------------------------------------------------------------------------
(* Parser: UUID.parse *)

UpperLetters == <<"A", "B", "C", "D", "E", "F", "G", "H", "I", "J", "K", "L", "M",
                  "N", "O", "P", "Q", "R", "S", "T", "U", "V", "W", "X", "Y", "Z">>
LowerLetters == <<"a", "b", "c", "d", "e", "f", "g", "h", "i", "j", "k", "l", "m",
                  "n", "o", "p", "q", "r", "s", "t", "u", "v", "w", "x", "y", "z">>

ToLowerChar(c) ==
  IF \E i \in 1..26 : UpperLetters[i] = c
  THEN LowerLetters[CHOOSE i \in 1..26 : UpperLetters[i] = c]
  ELSE c

ToLowerCase(s) == [i \in 1..Len(s) |-> ToLowerChar(s[i])]

\* \s of the pattern: the white space and the line terminators of ECMAScript
WhiteSpace ==
  {" ", "\t", "\n", "\r", "\f", "U+000B", "U+00A0", "U+1680", "U+2000", "U+2001",
   "U+2002", "U+2003", "U+2004", "U+2005", "U+2006", "U+2007", "U+2008",
   "U+2009", "U+200A", "U+2028", "U+2029", "U+202F", "U+205F", "U+3000",
   "U+FEFF"}

IsSpace(c) == c \in WhiteSpace

\* [0-9a-f] under the i flag
IsHex(c) == \E d \in 1..16 : HexDigits[d] = ToLowerChar(c)

HexValue(c) == (CHOOSE d \in 1..16 : HexDigits[d] = ToLowerChar(c)) - 1

RECURSIVE TrimLeft(_)
TrimLeft(s) == IF s # <<>> /\ IsSpace(s[1]) THEN TrimLeft(Tail(s)) ELSE s

RECURSIVE TrimRight(_)
TrimRight(s) ==
  IF s # <<>> /\ IsSpace(s[Len(s)]) THEN TrimRight(SubSeq(s, 1, Len(s) - 1)) ELSE s

UrnPrefix == <<"u", "r", "n", ":", "u", "u", "i", "d", ":">>

StartsWithUrn(s) == Len(s) >= 9 /\ ToLowerCase(SubSeq(s, 1, 9)) = UrnPrefix

\* ([0-9a-f]{8})-([0-9a-f]{4})-([0-9a-f]{4})-([0-9a-f]{2})([0-9a-f]{2})-([0-9a-f]{12})
IsBody(s) ==
  /\ Len(s) = 36
  /\ \A i \in 1..36 : IF i \in {9, 14, 19, 24} THEN s[i] = "-" ELSE IsHex(s[i])

\* p.exec(strId): the groups r[1], the 36 characters of r[2]..r[7], and r[8];
\* Null when the pattern does not match.  Between ^\s* and \s*$ the pattern
\* holds no white space, so it matches the trimmed text or nothing.
Exec(strId) ==
  LET core == TrimRight(TrimLeft(strId))
      l    == IF StartsWithUrn(core) THEN SubSeq(core, 1, 9)
              ELSE IF core # <<>> /\ core[1] = "{" THEN <<"{">>
              ELSE <<>>
      rest == SubSeq(core, Len(l) + 1, Len(core))
      t    == IF Len(rest) = 37 /\ rest[37] = "}" THEN <<"}">> ELSE <<>>
      body == SubSeq(rest, 1, Len(rest) - Len(t))
  IN  IF IsBody(body) THEN [l |-> l, body |-> body, t |-> t] ELSE Null

\* parseInt(s, 16) on a string of hexadecimal digits
RECURSIVE ParseInt16(_)
ParseInt16(s) ==
  IF s = <<>> THEN <<>>
  ELSE BigAdd(BigMulSmall(ParseInt16(SubSeq(s, 1, Len(s) - 1)), 16),
              ToBig(HexValue(s[Len(s)])))

\* PairingOk without the test on the suffix after urn:uuid:
PairingOkLoose(l, t) ==
  \/ l \o t = <<>>
  \/ l = <<"{">> /\ t = <<"}">>
  \/ ToLowerCase(l) = UrnPrefix

\* the test on the prefix l and the suffix t
PairingOk(l, t) ==
  \/ l \o t = <<>>
  \/ l = <<"{">> /\ t = <<"}">>
  \/ ToLowerCase(l) = UrnPrefix /\ t = <<>>

parse(strId) ==
  LET r == Exec(strId)
  IN  IF r # Null /\ PairingOk(r.l, r.t)
      THEN UUIDInit(<<ParseInt16(SubSeq(r.body, 1, 8)),
                      ParseInt16(SubSeq(r.body, 10, 13)),
                      ParseInt16(SubSeq(r.body, 15, 18)),
                      ParseInt16(SubSeq(r.body, 20, 21)),
                      ParseInt16(SubSeq(r.body, 22, 23)),
                      ParseInt16(SubSeq(r.body, 25, 36))>>)
      ELSE Null

----------------------------------------------------------------------------
(* RandomSource: UUID._getRandomInt, given what Math.random() * 2^k floors to *)

\* u1 = 0 | Math.random() * (1 << min(x, 30)), u2 = 0 | Math.random() * (1 << x - 30)
\* NaN, returned without a draw for x < 0 and for x > 53
NaN == [nan |-> TRUE]

getRandomInt(x, u1, u2) ==
  IF x < 0 THEN NaN
  ELSE IF x <= 30 THEN ToBig(u1)
  ELSE IF x <= 53 THEN BigAdd(ToBig(u1), BigShl(ToBig(u2), 30))
  ELSE NaN

----------------------------------------------------------------------------
(* V1StateMachine: UUIDState, UUID.resetState, UUID.genV1 *)

\* UUIDState without the | 1 on the first octet of the node
UUIDStateUnicast(r14, r8, r40, r4) ==
  [timestamp |-> <<>>,
   sequence  |-> r14,
   node      |-> BigAdd(BigShl(ToBig(r8), 40), r40),
   tick      |-> r4]

\* function UUIDState, from the values its four rand calls return
UUIDState(r14, r8, r40, r4) ==
  [timestamp |-> <<>>,
   sequence  |-> r14,
   node      |-> BigAdd(BigShl(ToBig(BitOr(r8, 1)), 40), r40),
   tick      |-> r4]

\* the branch genV1 takes on reading the clock value t
Branch(s, t, below) ==
  IF t # s.timestamp
  THEN IF BigLt(t, s.timestamp) THEN "back" ELSE "forward"
  ELSE IF below /\ s.tick < 9984 THEN "tick" ELSE "seq"

\* Advance with the last branch leaving the sequence as it is
AdvanceKeepsSequence(s, t, below, r4) ==
  IF t # s.timestamp
  THEN [s EXCEPT !.sequence = IF BigLt(t, s.timestamp) THEN @ + 1 ELSE @,
                 !.timestamp = t,
                 !.tick = r4]
  ELSE IF below /\ s.tick < 9984
  THEN [s EXCEPT !.tick = @ + 1 + r4]
  ELSE s

\* Advance without the increment on a clock that moved backward
AdvanceIgnoresRegression(s, t, below, r4) ==
  IF t # s.timestamp
  THEN [s EXCEPT !.timestamp = t, !.tick = r4]
  ELSE IF below /\ s.tick < 9984
  THEN [s EXCEPT !.tick = @ + 1 + r4]
  ELSE [s EXCEPT !.sequence = @ + 1]

\* Advance with <= for < in the test on the tick
AdvanceLateCeiling(s, t, below, r4) ==
  IF t # s.timestamp
  THEN [s EXCEPT !.sequence = IF BigLt(t, s.timestamp) THEN @ + 1 ELSE @,
                 !.timestamp = t,
                 !.tick = r4]
  ELSE IF below /\ s.tick <= 9984
  THEN [s EXCEPT !.tick = @ + 1 + r4]
  ELSE [s EXCEPT !.sequence = @ + 1]

\* the state update of genV1 before the fields are formatted; below is
\* Math.random() < UUID._tsRatio, r4 is what UUID._getRandomInt(4) returns
Advance(s, t, below, r4) ==
  IF t # s.timestamp
  THEN [s EXCEPT !.sequence = IF BigLt(t, s.timestamp) THEN @ + 1 ELSE @,
                 !.timestamp = t,
                 !.tick = r4]
  ELSE IF below /\ s.tick < 9984
  THEN [s EXCEPT !.tick = @ + 1 + r4]
  ELSE [s EXCEPT !.sequence = @ + 1]

\* var tl = tf.low + st.tick
TimeLow(tf, tick) == BigAdd(tf.low, ToBig(tick))

\* var thav = (tf.hi & 0xFFF) | 0x1000
TimeHiAndVersion(tf) == BitOr(BitAnd(tf.hi, 4095), 4096)

\* MaskSequence without the mask
MaskSequenceNone(sequence) == sequence

\* st.sequence &= 0x3FFF
MaskSequence(sequence) == BitAnd(sequence, 16383)

\* var cshar = (st.sequence >>> 8) | 0x80
ClockSeqHiAndReserved(sequence) == BitOr(sequence \div 256, 128)

\* var csl = st.sequence & 0xFF
ClockSeqLow(sequence) == BitAnd(sequence, 255)

\* the state genV1 leaves
GenV1State(s, t, below, r4) ==
  LET s1 == Advance(s, t, below, r4)
  IN  [s1 EXCEPT !.sequence = MaskSequence(s1.sequence)]

\* the identifier genV1 returns, from the state it leaves
GenV1Result(s2) ==
  LET tf == getTimeFieldValues(s2.timestamp)
  IN  UUIDInit(<<TimeLow(tf, s2.tick), ToBig(tf.mid), ToBig(TimeHiAndVersion(tf)),
                 ToBig(ClockSeqHiAndReserved(s2.sequence)),
                 ToBig(ClockSeqLow(s2.sequence)), s2.node>>)

GenV1(t, below, r4) ==
  LET s2 == GenV1State(st, t, below, r4)
  IN  /\ st' = s2
      /\ ret' = GenV1Result(s2)
      /\ op' = "genV1"
      /\ branch' = Branch(st, t, below)
      /\ now' = t
      /\ arg' = Null

ResetState(r14, r8, r40, r4) ==
  /\ st' = UUIDState(r14, r8, r40, r4)
  /\ ret' = Null
  /\ op' = "resetState"
  /\ branch' = "none"
  /\ UNCHANGED <<now, arg>>

----------------------------------------------------------------------------
(* The environment: clock values and random draws *)

\* 2026-10-24T14:55:49.103Z, whose 100 ns count ends in 0xfffffff0
T0 == <<11631, 28265, 417>>

Clock == {T0, BigAdd(T0, <<1>>)}

Rand4 == {0, 15}
Rand8 == {0, 254}
Rand14 == {0, 16383}
Rand40 == {getRandomInt(40, 0, 0), getRandomInt(40, 2^30 - 1, 1023)}

MaxCalls == 4

InitWith(seqs, r8s, r40s) ==
  /\ st \in {UUIDState(r14, r8, r40, r4) :
               r14 \in seqs, r8 \in r8s, r40 \in r40s, r4 \in Rand4}
  /\ ret = Null
  /\ op = "init"
  /\ branch = "none"
  /\ now = <<>>
  /\ arg = Null
  /\ calls = 0
  /\ bumps = 0
  /\ advances = 0
  /\ snap = Null
  /\ since = 0

Init == InitWith(Rand14, Rand8, Rand40)

GenV1Call ==
  /\ calls < MaxCalls
  /\ \E t \in Clock, below \in BOOLEAN, r4 \in Rand4 : GenV1(t, below, r4)
  /\ calls' = calls + 1
  /\ UNCHANGED <<bumps, advances, snap, since>>

ResetCall ==
  /\ calls < MaxCalls
  /\ \E r14 \in Rand14, r8 \in Rand8, r40 \in Rand40, r4 \in Rand4 :
       ResetState(r14, r8, r40, r4)
  /\ calls' = calls + 1
  /\ UNCHANGED <<bumps, advances, snap, since>>

Next == GenV1Call \/ ResetCall

Spec == Init /\ [][Next]_vars

----------------------------------------------------------------------------
(* SpecTick: long runs of genV1 calls, with few sequence increments *)

MaxBumps == 1

InitTick == InitWith({16383}, {0}, {getRandomInt(40, 0, 0)})

TickGenV1 ==
  /\ \E t \in Clock, below \in BOOLEAN, r4 \in Rand4 : GenV1(t, below, r4)
  /\ bumps' = bumps + (IF branch' \in {"back", "seq"} THEN 1 ELSE 0)
  /\ bumps' <= MaxBumps
  /\ UNCHANGED <<calls, advances, snap, since>>

TickReset ==
  /\ \E r4 \in Rand4 : ResetState(16383, 0, getRandomInt(40, 0, 0), r4)
  /\ UNCHANGED <<calls, bumps, advances, snap, since>>

NextTick == TickGenV1 \/ TickReset

SpecTick == InitTick /\ [][NextTick]_vars

----------------------------------------------------------------------------
(* SpecWrap: genV1 calls with the clock held at one value and no reset, with
   few tick advances *)

MaxAdvances == 1
MaxSince == 16385

HeldClock == T0

InitWrap == InitWith({16383}, {0}, {getRandomInt(40, 0, 0)})

WrapGenV1 ==
  /\ \E below \in BOOLEAN, r4 \in Rand4 : GenV1(HeldClock, below, r4)
  /\ advances' = advances + (IF branch' = "tick" THEN 1 ELSE 0)
  /\ advances' <= MaxAdvances
  /\ snap' = IF snap = Null THEN ret' ELSE snap
  /\ since' = IF snap = Null THEN 0 ELSE since + 1
  /\ since' <= MaxSince
  /\ UNCHANGED <<calls, bumps>>

NextWrap == WrapGenV1

SpecWrap == InitWrap /\ [][NextWrap]_vars

----------------------------------------------------------------------------
(* SpecForward: genV1 calls with no reset, each reading a later clock value
   than the call before *)

\* 2039-06-21T16:15:07.629Z, two milliseconds before the 100 ns count
\* 0x200008AFFFFFFF0, which the double product of _getTimeFieldValues rounds up
ForwardBase == <<11629, 28265, 510>>

MaxForward == 6

ForwardClock == {BigAdd(ForwardBase, ToBig(k)) : k \in 0..MaxForward}

InitForward == InitWith(Rand14, Rand8, Rand40)

ForwardGenV1 ==
  /\ \E t \in ForwardClock, below \in BOOLEAN, r4 \in Rand4 :
       /\ BigLt(st.timestamp, t)
       /\ GenV1(t, below, r4)
  /\ UNCHANGED <<calls, bumps, advances, snap, since>>

NextForward == ForwardGenV1

SpecForward == InitForward /\ [][NextForward]_vars

----------------------------------------------------------------------------
(* SpecCodec: the stateless operations, each applied once to a sample
   argument (their results do not depend on what was called before) *)

\* sample texts, each put together from white space, a prefix, a body, a suffix
\* and white space; ok and kind say what the sample was written to be
Bodies == {
    [chars |-> <<"0", "1", "2", "3", "4", "5", "6", "7", "-", "8", "9", "a", "b", "-", "4", "d", "e", "f", "-", "8", "1", "2", "3", "-", "4", "5", "6", "7", "8", "9", "a", "b", "c", "d", "e", "f">>,
     ok |-> TRUE, fields |-> <<<<17767, 291>>, <<35243>>, <<19951>>, <<129>>, <<35>>, <<52719, 35243, 17767>>>>],
    [chars |-> <<"0", "1", "2", "3", "4", "5", "6", "7", "-", "8", "9", "A", "B", "-", "4", "D", "E", "F", "-", "8", "1", "2", "3", "-", "4", "5", "6", "7", "8", "9", "A", "B", "C", "d", "e", "f">>,
     ok |-> TRUE, fields |-> <<<<17767, 291>>, <<35243>>, <<19951>>, <<129>>, <<35>>, <<52719, 35243, 17767>>>>],
    [chars |-> <<"0", "0", "0", "0", "0", "0", "0", "0", "-", "0", "0", "0", "0", "-", "0", "0", "0", "0", "-", "0", "0", "0", "0", "-", "0", "0", "0", "0", "0", "0", "0", "0", "0", "0", "0", "0">>,
     ok |-> TRUE, fields |-> <<<<>>, <<>>, <<>>, <<>>, <<>>, <<>>>>],
    [chars |-> <<"0", "1", "2", "3", "4", "5", "6", "7", "8", "9", "a", "b", "-", "4", "d", "e", "f", "-", "8", "1", "2", "3", "-", "4", "5", "6", "7", "8", "9", "a", "b", "c", "d", "e", "f">>,
     ok |-> FALSE, fields |-> <<>>],
    [chars |-> <<"1", "2", "3", "4", "5", "6", "7", "-", "8", "9", "a", "b", "-", "4", "d", "e", "f", "-", "8", "1", "2", "3", "-", "4", "5", "6", "7", "8", "9", "a", "b", "c", "d", "e", "f">>,
     ok |-> FALSE, fields |-> <<>>],
    [chars |-> <<"g", "1", "2", "3", "4", "5", "6", "7", "-", "8", "9", "a", "b", "-", "4", "d", "e", "f", "-", "8", "1", "2", "3", "-", "4", "5", "6", "7", "8", "9", "a", "b", "c", "d", "e", "f">>,
     ok |-> FALSE, fields |-> <<>>],
    [chars |-> <<"0", "1", "2", "3", "4", "5", "6", "g", "-", "8", "9", "a", "b", "-", "4", "d", "e", "f", "-", "8", "1", "2", "3", "-", "4", "5", "6", "7", "8", "9", "a", "b", "c", "d", "e", "f">>,
     ok |-> FALSE, fields |-> <<>>],
    [chars |-> <<"0", "1", "2", "3", "4", "5", "6", "7", "-", "8", "9", "a", "b", "-", "4", "d", "e", "f", "-", "8", "1", "2", "3", "-", "4", "5", "6", "7", "8", "9", "a", "b", "c", "d", "e", "f", "0">>,
     ok |-> FALSE, fields |-> <<>>],
    [chars |-> <<"0", "1", "2", "3", "4", "5", "6", "7", "-", "8", "9", "a", "b", "-", "4", "d", "e", "f", "-", "8", "1", "-", "2", "3", "-", "4", "5", "6", "7", "8", "9", "a", "b", "c", "d", "e", "f">>,
     ok |-> FALSE, fields |-> <<>>]}

Prefixes == {
    [chars |-> <<>>, kind |-> "none"],
    [chars |-> <<"{">>, kind |-> "brace"],
    [chars |-> <<"u", "r", "n", ":", "u", "u", "i", "d", ":">>, kind |-> "urn"],
    [chars |-> <<"U", "R", "N", ":", "U", "U", "I", "D", ":">>, kind |-> "urn"],
    [chars |-> <<"U", "r", "n", ":", "U", "u", "i", "d", ":">>, kind |-> "urn"],
    [chars |-> <<"}">>, kind |-> "bad"],
    [chars |-> <<"u", "r", "n", ":">>, kind |-> "bad"],
    [chars |-> <<"{", " ">>, kind |-> "bad"]}

Suffixes == {
    [chars |-> <<>>, kind |-> "none"],
    [chars |-> <<"}">>, kind |-> "brace"],
    [chars |-> <<"}", "}">>, kind |-> "bad"],
    [chars |-> <<"{">>, kind |-> "bad"]}

Leads == {<<>>, <<" ">>, <<"\t", " ">>, <<"\r">>, <<"U+FEFF", "\f">>}

Trails == {<<>>, <<"\n">>, <<"\r", "\n">>, <<"U+00A0">>}

TextOf(a) == a.lead \o a.prefix.chars \o a.body.chars \o a.suffix.chars \o a.trail

\* sample field values, the last of timeLow and of node one past the width
FieldSamples == <<
    {<<>>, <<1>>, <<17767, 291>>, <<65535, 65535>>, <<0, 0, 1>>},
    {<<>>, <<35243>>, <<65535>>},
    {<<>>, <<19951>>, <<65535>>},
    {<<>>, <<129>>, <<255>>},
    {<<>>, <<10>>, <<255>>},
    {<<>>, <<52719, 35243, 17767>>, <<65535, 65535, 65535>>, <<0, 0, 0, 1>>}>>

\* 1970-01-01, the days around T0, and the days around 2039-06-21T16:15:07.631Z
TimeBases == {<<>>, <<11611, 28265, 417>>, <<11611, 28265, 510>>, <<11611, 32361, 510>>}

TimeSpan == 40

Times == {BigAdd(b, ToBig(k)) : b \in TimeBases, k \in 0..TimeSpan}

InitCodec == InitWith({0}, {0}, {getRandomInt(40, 0, 0)})

ParseCall ==
  /\ op = "init"
  /\ \E lead \in Leads, prefix \in Prefixes, body \in Bodies,
        suffix \in Suffixes, trail \in Trails :
       /\ arg' = [lead |-> lead, prefix |-> prefix, body |-> body,
                  suffix |-> suffix, trail |-> trail]
       /\ ret' = parse(TextOf(arg'))
  /\ op' = "parse"
  /\ snap' = Null
  /\ UNCHANGED <<st, branch, now, calls, bumps, advances, since>>

InitCall ==
  /\ op = "init"
  /\ \E f1 \in FieldSamples[1], f2 \in FieldSamples[2], f3 \in FieldSamples[3],
        f4 \in FieldSamples[4], f5 \in FieldSamples[5], f6 \in FieldSamples[6] :
       /\ arg' = <<f1, f2, f3, f4, f5, f6>>
       /\ ret' = UUIDInit(arg')
  /\ op' = "_init"
  /\ snap' = Null
  /\ UNCHANGED <<st, branch, now, calls, bumps, advances, since>>

\* UUID.parse(uuid.toString()) on the identifier just built
ParseToString ==
  /\ op = "_init"
  /\ snap' = ret
  /\ arg' = ret.hexString
  /\ ret' = parse(ret.hexString)
  /\ op' = "parse(toString)"
  /\ UNCHANGED <<st, branch, now, calls, bumps, advances, since>>

TimeFieldsCall ==
  /\ op = "init"
  /\ \E time \in Times :
       /\ arg' = time
       /\ ret' = getTimeFieldValues(time)
  /\ op' = "_getTimeFieldValues"
  /\ snap' = Null
  /\ UNCHANGED <<st, branch, now, calls, bumps, advances, since>>

NextCodec == ParseCall \/ InitCall \/ ParseToString \/ TimeFieldsCall

SpecCodec == InitCodec /\ [][NextCodec]_vars

----------------------------------------------------------------------------
(* The claims *)

\* C1 as stated (SpecWrap): with the clock held at one value and no reset, no
\* identifier genV1 returns is field-equal to the first one of the run,
\* however many calls lie between them.
C1_NeverEqual == (snap # Null /\ since >= 1) => ~Equals(ret, snap)

\* C1 as amended (SpecWrap): with the clock held at one value and no reset, an
\* identifier returned fewer than 2^14 calls after another one is not
\* field-equal to it.
C1_DistinctWithinWrap ==
  (snap # Null /\ since \in 1..(2^14 - 1)) => ~Equals(ret, snap)

\* 2^14 - 1 calls after the first, all of them sequence increments: timeLow is
\* that of the first identifier and the clock sequence is one short of it
C1_Witness ==
  /\ snap # Null
  /\ since = 2^14 - 1
  /\ ret.intFields[1] = snap.intFields[1]
  /\ ~Equals(ret, snap)

\* the 60-bit time value an identifier encodes: the low 12 bits of
\* timeHiAndVersion, timeMid and timeLow
EncodedTime(u) ==
  BigAdd(BigShl(BigModPow2(u.intFields[3], 12), 48),
         BigAdd(BigShl(u.intFields[2], 32), u.intFields[1]))

\* C2 (SpecForward): when genV1 is called again and the clock has not moved
\* backward, the time value the new identifier encodes is strictly greater
\* than the one the previous identifier encodes.
C2_StrictlyMonotonic ==
  [][(op = "genV1" /\ op' = "genV1" /\ ~BigLt(now', now))
       => BigLt(EncodedTime(ret), EncodedTime(ret'))]_vars

\* C3 as stated (Spec): a genV1 call that reads a clock value below
\* state.timestamp leaves state.sequence strictly greater than it was.
C3_SequenceIncreases ==
  [][(op' = "genV1" /\ BigLt(now', st.timestamp))
       => st'.sequence > st.sequence]_vars

\* C3 as amended (Spec): a genV1 call that reads a clock value below
\* state.timestamp leaves state.sequence one more than it was, modulo 2^14.
C3_SequenceSucceeds ==
  [][(op' = "genV1" /\ BigLt(now', st.timestamp))
       => st'.sequence = (st.sequence + 1) % 2^14]_vars

\* a call that saw the clock move backward and wrapped the sequence
C3_Witness == op = "genV1" /\ branch = "back" /\ st.sequence = 0

\* C4 (Spec): every identifier genV1 returns has each field within its
\* declared width, and a hexString of 36 characters.
C4_FieldsInWidth ==
  op = "genV1" =>
    /\ \A i \in 1..6 : BigBitLen(ret.intFields[i]) <= FIELD_SIZES[i]
    /\ Len(ret.hexString) = 36

\* C5 (Spec): every identifier genV1 returns has version 1 and the two top
\* bits of clockSeqHiAndReserved equal to 10.
C5_VersionAndVariant ==
  op = "genV1" =>
    /\ ret.version = 1
    /\ BigToInt(ret.intFields[4]) \div 64 = 2

\* a call in the same millisecond that wrapped the sequence
C5_Witness == op = "genV1" /\ branch = "seq" /\ st.sequence = 0 /\ ret.version = 1

InWidth(fields) == \A i \in 1..6 : BigBitLen(fields[i]) <= FIELD_SIZES[i]

\* C6 (SpecCodec): parsing the hexString of an identifier built from six
\* fields within their widths gives an identifier with the same six fields.
C6_RoundTrip ==
  (op = "parse(toString)" /\ InWidth(snap.intFields))
    => (ret # Null /\ Equals(ret, snap))

\* a round trip of fields that need their leading zeros
C6_Witness ==
  /\ op = "parse(toString)"
  /\ InWidth(snap.intFields)
  /\ snap.intFields[1] = <<1>>
  /\ snap.intFields[6] # <<>>
  /\ ret # Null

\* what a sample text was written to be: a well-formed body with no prefix and
\* no suffix, or { and }, or urn:uuid: and no suffix
WellFormed(a) ==
  /\ a.body.ok
  /\ \/ a.prefix.kind = "none" /\ a.suffix.kind = "none"
     \/ a.prefix.kind = "brace" /\ a.suffix.kind = "brace"
     \/ a.prefix.kind = "urn" /\ a.suffix.kind = "none"

\* C7 (SpecCodec): parse returns an identifier, with the fields the text
\* spells, exactly for the well-formed texts, and null for every other text.
C7_ParseAcceptsWellFormed ==
  op = "parse" =>
    IF WellFormed(arg)
    THEN ret # Null /\ ret.intFields = arg.body.fields
    ELSE ret = Null

\* urn:uuid: with a closing brace around a well-formed body is refused
C7_Witness ==
  /\ op = "parse"
  /\ arg.body.ok
  /\ arg.prefix.kind = "urn"
  /\ arg.suffix.kind = "brace"
  /\ ret = Null

\* bit 40 of the node: the multicast bit of its first octet
MulticastBit(node) == LimbAt(BigShr(node, 40), 1) % 2

\* C8 as stated (Spec): after resetState timestamp and tick are 0, sequence is
\* within 14 bits and node within 48 bits with its multicast bit set.
C8_ResetZeroesTick ==
  op = "resetState" =>
    /\ st.timestamp = <<>>
    /\ st.tick = 0
    /\ st.sequence \in 0..(2^14 - 1)
    /\ BigBitLen(st.node) <= 48
    /\ MulticastBit(st.node) = 1

\* C8 as amended (Spec): after resetState timestamp is 0, tick is within 4
\* bits, sequence within 14 bits and node within 48 bits with its multicast
\* bit set.
C8_ResetDrawsTick ==
  op = "resetState" =>
    /\ st.timestamp = <<>>
    /\ st.tick \in 0..15
    /\ st.sequence \in 0..(2^14 - 1)
    /\ BigBitLen(st.node) <= 48
    /\ MulticastBit(st.node) = 1

\* a reset after genV1 has run, that drew a tick other than 0
C8_Witness == op = "resetState" /\ now # <<>> /\ st.tick = 15

\* C9 (SpecTick): tick is in [0, 10000) in every state; a genV1 call that reads
\* a changed clock value leaves it in [0, 16), and one that reads the same
\* value either advances it by 1..16 from below 9984, or leaves it and
\* increments the sequence.
C9_TickStep ==
  op' = "genV1" =>
    IF now' # st.timestamp
    THEN st'.tick \in 0..15
    ELSE \/ /\ st.tick < 9984
            /\ st'.tick - st.tick \in 1..16
            /\ st'.sequence = st.sequence
         \/ /\ st'.tick = st.tick
            /\ st'.sequence = (st.sequence + 1) % 2^14

C9_TickBounded == [](st.tick \in 0..9999) /\ [][C9_TickStep]_vars

\* a call in the same millisecond with the tick at its highest value
C9_Witness == op = "genV1" /\ branch = "seq" /\ st.tick = 9999

\* C10 (SpecCodec): the fields _getTimeFieldValues returns are within 32, 16
\* and 12 bits and are the split of the count of 100 ns intervals,
\* (time - Date.UTC(1582, 9, 15)) * 10000, modulo 2^60.
C10_ExactSplit ==
  op = "_getTimeFieldValues" =>
    /\ BigBitLen(ret.low) <= 32
    /\ ret.mid < 2^16
    /\ ret.hi < 2^12
    /\ BigAdd(BigShl(ToBig(ret.hi), 48), BigAdd(BigShl(ToBig(ret.mid), 32), ret.low))
         = BigModPow2(BigMulSmall(BigAdd(arg, GregorianOffset), 10000), 60)

====
